---- MODULE Spec2Model ----
(***************************************************************************)
(* Model of the order/payment/refund reconciliation pipeline of            *)
(* etl_anomaly.py: ReconciliationETL (load_and_clean, aggregate), the      *)
(* date filter of the main runner, AnomalyDetector.detect and              *)
(* ReportGenerator (daily_summary, daily_anomaly_summary,                  *)
(* generate_detailed_anomalies, save_outputs).                             *)
(*                                                                         *)
(* A DataFrame is a sequence of records (rows).  A timestamp is a number   *)
(* of minutes since midnight of day 0 (a Monday); NaT is the unknown       *)
(* timestamp.  An amount is an integer number of thousandths; NaN is the   *)
(* unknown number (also a missing id).  A string that the code parses      *)
(* (the --offhours window) is a sequence of one-character strings.         *)
(***************************************************************************)
EXTENDS Integers, Sequences, FiniteSets, TLC

VARIABLES
    args,          \* parsed command line: date_from, date_to, offhours, weekend
    xl_orders,     \* content of the orders file
    xl_payments,   \* content of the payments file
    xl_refunds,    \* content of the refunds file
    orders,        \* etl.orders
    payments,      \* etl.payments
    refunds,       \* etl.refunds
    order_view,    \* etl.order_view / detector.order_view / reporter.order_view
    outdir,        \* artifacts written by this run: file name -> content
    error,         \* exception that ended the run, "none" while it runs
    pc             \* position of the main runner

vars == <<args, xl_orders, xl_payments, xl_refunds, orders, payments, refunds,
          order_view, outdir, error, pc>>

----------------------------------------------------------------------------
(* Values *)

\* pd.to_datetime(..., errors="coerce") yields NaT for an unparseable value
NaT == -1

\* pd.to_numeric(..., errors="coerce") yields NaN; a missing id cell is NaN too
NaN == -999999

\* argparse leaves an option that was not given as None
NoDate == -1

MinutesPerHour == 60

HoursPerDay == 24

MinutesPerDay == HoursPerDay * MinutesPerHour

LateRefundDays == 7

\* Timestamp.hour, Timestamp.minute, Timestamp.weekday(), Timestamp.date()
HourOf(t) == (t % MinutesPerDay) \div MinutesPerHour

MinuteOf(t) == t % MinutesPerHour

WeekdayOf(t) == (t \div MinutesPerDay) % 7

DateOf(t) == t \div MinutesPerDay

\* pd.to_datetime("YYYY-MM-DD"): midnight of that day
ToDatetime(d) == d * MinutesPerDay

----------------------------------------------------------------------------
(* Sequence helpers *)

SeqsUpTo(S, n) == UNION {[1..k -> S] : k \in 0..n}

Range(s) == {s[i] : i \in 1..Len(s)}

RECURSIVE SumBy(_, _, _)
\* Series.sum(): the sum of column col, NaN cells skipped
SumBy(s, col, i) ==
    IF i > Len(s) THEN 0
    ELSE (IF s[i][col] = NaN THEN 0 ELSE s[i][col]) + SumBy(s, col, i + 1)

RECURSIVE MinTime(_, _, _)
\* Series.min() of a datetime column: NaT cells skipped, NaT when none is left
MinTime(s, col, i) ==
    IF i > Len(s) THEN NaT
    ELSE LET rest == MinTime(s, col, i + 1)
             t == s[i][col]
         IN  IF t = NaT THEN rest
             ELSE IF rest = NaT THEN t
             ELSE IF t < rest THEN t ELSE rest

RECURSIVE SortedInts(_)
\* the elements of a finite set of integers, ascending (groupby sorts its keys)
SortedInts(S) ==
    IF S = {} THEN <<>>
    ELSE LET m == CHOOSE x \in S : \A y \in S : x <= y
         IN  <<m>> \o SortedInts(S \ {m})

----------------------------------------------------------------------------
(* ReconciliationETL.load_and_clean *)

RECURSIVE DropDuplicates(_)
\* DataFrame.drop_duplicates(): a row equal to an earlier row is dropped
DropDuplicates(df) ==
    IF df = <<>> THEN <<>>
    ELSE LET n == Len(df)
             head == DropDuplicates(SubSeq(df, 1, n - 1))
         IN  IF \E i \in 1..(n - 1) : df[i] = df[n] THEN head
             ELSE Append(head, df[n])

\* DataFrame.dropna(subset=cols): a row with NaN in one of cols is dropped
DropNa(df, cols) == SelectSeq(df, LAMBDA r : \A c \in cols : r[c] # NaN)

CleanOrders(df) == DropNa(DropDuplicates(df), {"order_id"})

CleanPayments(df) == DropNa(DropDuplicates(df), {"payment_id", "order_id"})

CleanRefunds(df) == DropNa(DropDuplicates(df), {"refund_id", "order_id"})

LoadAndClean ==
    /\ pc = "start"
    /\ orders' = CleanOrders(xl_orders)
    /\ payments' = CleanPayments(xl_payments)
    /\ refunds' = CleanRefunds(xl_refunds)
    /\ pc' = "loaded"
    /\ UNCHANGED <<args, xl_orders, xl_payments, xl_refunds, order_view, outdir, error>>

----------------------------------------------------------------------------
(* __main__: optional date filters *)

FilterFrom(df, d) ==
    IF d = NoDate THEN df
    ELSE SelectSeq(df, LAMBDA r : r.order_datetime # NaT /\ r.order_datetime >= ToDatetime(d))

FilterTo(df, d) ==
    IF d = NoDate THEN df
    ELSE SelectSeq(df, LAMBDA r : r.order_datetime # NaT /\ r.order_datetime <= ToDatetime(d))

DateFilter ==
    /\ pc = "loaded"
    /\ orders' = FilterTo(FilterFrom(orders, args.date_from), args.date_to)
    /\ pc' = "filtered"
    /\ UNCHANGED <<args, xl_orders, xl_payments, xl_refunds, payments, refunds,
                   order_view, outdir, error>>

----------------------------------------------------------------------------
(* ReconciliationETL.aggregate *)

\* faulty variant of PaymentsSuccess: the status filter is forgotten
PaymentsAnyStatus(df) == df

PaymentsSuccess(df) == SelectSeq(df, LAMBDA p : p.payment_status = "SUCCESS")

GroupOf(df, oid) == SelectSeq(df, LAMBDA r : r.order_id = oid)

\* payments_success.groupby("order_id").agg(...).reset_index()
PaymentAgg(df) ==
    LET keys == SortedInts({p.order_id : p \in Range(df)})
    IN  [k \in 1..Len(keys) |->
            LET g == GroupOf(df, keys[k])
            IN  [order_id |-> keys[k],
                 success_sum |-> SumBy(g, "paid_amount", 1),
                 first_success_time |-> MinTime(g, "payment_datetime", 1),
                 gateways_used |-> {p.gateway : p \in Range(g)}]]

\* self.refunds.groupby("order_id").agg(...).reset_index()
RefundAgg(df) ==
    LET keys == SortedInts({r.order_id : r \in Range(df)})
    IN  [k \in 1..Len(keys) |->
            LET g == GroupOf(df, keys[k])
            IN  [order_id |-> keys[k],
                 refund_sum |-> SumBy(g, "refund_amount", 1),
                 first_refund_time |-> MinTime(g, "refund_datetime", 1)]]

\* the cells a left merge fills in for an order without a match, after fillna(0);
\* gateways_used stays NaN there, which is no list: the empty set stands for it
NoPayment == [success_sum |-> 0, first_success_time |-> NaT, gateways_used |-> {}]

NoRefund == [refund_sum |-> 0, first_refund_time |-> NaT]

RECURSIVE MergeLeft(_, _, _, _)
\* left.merge(right, on="order_id", how="left"): one output row per matching pair,
\* and one row with the default cells for a left row without a match
MergeLeft(left, right, cols, dflt) ==
    IF left = <<>> THEN <<>>
    ELSE LET n == Len(left)
             l == left[n]
             m == SelectSeq(right, LAMBDA r : r.order_id = l.order_id)
             add(r) == [c \in DOMAIN l \cup cols |-> IF c \in cols THEN r[c] ELSE l[c]]
         IN  MergeLeft(SubSeq(left, 1, n - 1), right, cols, dflt) \o
             (IF m = <<>> THEN <<add(dflt)>> ELSE [i \in 1..Len(m) |-> add(m[i])])

OrderView(o, p, r) ==
    MergeLeft(
        MergeLeft(o, PaymentAgg(PaymentsSuccess(p)),
                  {"success_sum", "first_success_time", "gateways_used"}, NoPayment),
        RefundAgg(r), {"refund_sum", "first_refund_time"}, NoRefund)

Aggregate ==
    /\ pc = "filtered"
    /\ order_view' = OrderView(orders, payments, refunds)
    /\ pc' = "aggregated"
    /\ UNCHANGED <<args, xl_orders, xl_payments, xl_refunds, orders, payments, refunds,
                   outdir, error>>

----------------------------------------------------------------------------
(* AnomalyDetector.detect *)

\* Series.round(2) on thousandths: to the nearest hundredth, a tie to the even one
Round2(x) ==
    LET q == x \div 10
        r == x % 10
    IN  IF r < 5 THEN 10 * q
        ELSE IF r > 5 THEN 10 * (q + 1)
        ELSE IF q % 2 = 0 THEN 10 * q ELSE 10 * (q + 1)

RECURSIVE Insert(_, _)
Insert(x, s) ==
    IF s = <<>> THEN <<x>>
    ELSE IF x <= Head(s) THEN <<x>> \o s
    ELSE <<Head(s)>> \o Insert(x, Tail(s))

RECURSIVE SortedAmounts(_)
\* the known order_amount cells, ascending, as Series.quantile orders them
SortedAmounts(df) ==
    IF df = <<>> THEN <<>>
    ELSE IF Head(df).order_amount = NaN THEN SortedAmounts(Tail(df))
    ELSE Insert(Head(df).order_amount, SortedAmounts(Tail(df)))

\* four times Series.quantile(k/4) of the sorted non-empty a (linear interpolation
\* between the two neighbours of position (k/4)*(n-1))
Quantile4(a, k) ==
    LET pos4 == k * (Len(a) - 1)
        lo == pos4 \div 4
        fr == pos4 % 4
    IN  IF fr = 0 THEN 4 * a[lo + 1]
        ELSE 4 * a[lo + 1] + fr * (a[lo + 2] - a[lo + 1])

AnomalyPaymentMismatch(r) ==
    IF r.order_amount = NaN THEN TRUE
    ELSE Round2(r.order_amount) # Round2(r.success_sum)

AnomalyOverRefund(r) == r.order_amount # NaN /\ r.refund_sum > r.order_amount

\* faulty variant of AnomalyLateRefund: the boundary of 7 days is included
AnomalyLateRefundInclusive(r) ==
    /\ r.first_refund_time # NaT
    /\ r.order_datetime # NaT
    /\ (r.first_refund_time - r.order_datetime) \div MinutesPerDay >= LateRefundDays

AnomalyLateRefund(r) ==
    /\ r.first_refund_time # NaT
    /\ r.order_datetime # NaT
    /\ (r.first_refund_time - r.order_datetime) \div MinutesPerDay > LateRefundDays

AnomalyMultigateway(r) == Cardinality(r.gateways_used) > 1

\* order_amount < Q1 - 1.5*IQR or > Q3 + 1.5*IQR, both sides times 8; with no
\* known amount the quantiles are NaN and every comparison is false
AnomalyOutlierAmount(r, df) ==
    LET a == SortedAmounts(df)
    IN  /\ a # <<>>
        /\ r.order_amount # NaN
        /\ LET q1 == Quantile4(a, 1)
               q3 == Quantile4(a, 3)
               iqr == q3 - q1
           IN  \/ 8 * r.order_amount < 2 * q1 - 3 * iqr
               \/ 8 * r.order_amount > 2 * q3 + 3 * iqr

AnomalyInvalidAmount(r) ==
    \/ (r.order_amount # NaN /\ r.order_amount <= 0)
    \/ r.success_sum < 0
    \/ r.refund_sum < 0

RECURSIVE Split(_, _)
\* str.split(sep): the pieces between the separators, one more than separators
Split(s, sep) ==
    IF \A i \in 1..Len(s) : s[i] # sep THEN <<s>>
    ELSE LET i == CHOOSE j \in 1..Len(s) : s[j] = sep /\ \A k \in 1..(j - 1) : s[k] # sep
         IN  <<SubSeq(s, 1, i - 1)>> \o Split(SubSeq(s, i + 1, Len(s)), sep)

Digits == <<"0", "1", "2", "3", "4", "5", "6", "7", "8", "9">>

IsDigit(c) == \E i \in 1..Len(Digits) : Digits[i] = c

DigitValue(c) == (CHOOSE i \in 1..Len(Digits) : Digits[i] = c) - 1

\* int(s) succeeds on a non-empty run of digits (no sign, blank or underscore
\* occurs in the strings considered)
IsInt(s) == s # <<>> /\ \A i \in 1..Len(s) : IsDigit(s[i])

RECURSIVE IntOf(_)
IntOf(s) == IF s = <<>> THEN 0 ELSE 10 * IntOf(SubSeq(s, 1, Len(s) - 1)) + DigitValue(s[Len(s)])

\* a, b = map(int, s.split(":")) succeeds
IsHourMinute(s) ==
    LET f == Split(s, ":")
    IN  Len(f) = 2 /\ IsInt(f[1]) /\ IsInt(f[2])

\* hour * 60 + minute of "H:M"
MinuteOfDay(s) ==
    LET f == Split(s, ":")
    IN  IntOf(f[1]) * MinutesPerHour + IntOf(f[2])

\* lines 116-118 raise no ValueError
WindowParses(w) ==
    LET p == Split(w, "-")
    IN  Len(p) = 2 /\ IsHourMinute(p[1]) /\ IsHourMinute(p[2])

WindowStart(w) == MinuteOfDay(Split(w, "-")[1])

WindowEnd(w) == MinuteOfDay(Split(w, "-")[2])

\* is_offhour(row); row["hour"] is NaN for an unknown order_datetime and every
\* comparison with NaN is false
IsOffhour(r, start, end) ==
    /\ r.order_datetime # NaT
    /\ LET current == HourOf(r.order_datetime) * MinutesPerHour + MinuteOf(r.order_datetime)
       IN  IF start < end THEN start <= current /\ current < end
           ELSE current >= start \/ current < end

AnomalyWeekend(r) == r.order_datetime # NaT /\ WeekdayOf(r.order_datetime) \in {5, 6}

Extend(r, more) == [c \in DOMAIN r \cup DOMAIN more |-> IF c \in DOMAIN more THEN more[c] ELSE r[c]]

\* lines 95-112: the six flags set before the off-hours window is parsed
FirstFlags(df) ==
    [i \in 1..Len(df) |->
        Extend(df[i],
               [anomaly_payment_mismatch |-> AnomalyPaymentMismatch(df[i]),
                anomaly_over_refund |-> AnomalyOverRefund(df[i]),
                anomaly_late_refund |-> AnomalyLateRefund(df[i]),
                anomaly_multigateway |-> AnomalyMultigateway(df[i]),
                anomaly_outlier_amount |-> AnomalyOutlierAmount(df[i], df),
                anomaly_invalid_amount |-> AnomalyInvalidAmount(df[i])])]

\* lines 114-134
OffhoursFlags(df, w) ==
    [i \in 1..Len(df) |->
        IF w = <<>> THEN Extend(df[i], [anomaly_offhours |-> FALSE])
        ELSE Extend(df[i],
                    [hour |-> IF df[i].order_datetime = NaT THEN NaN
                              ELSE HourOf(df[i].order_datetime),
                     minute |-> IF df[i].order_datetime = NaT THEN NaN
                                ELSE MinuteOf(df[i].order_datetime),
                     anomaly_offhours |-> IsOffhour(df[i], WindowStart(w), WindowEnd(w))])]

\* lines 136-138
WeekendFlags(df, on) ==
    [i \in 1..Len(df) |->
        Extend(df[i],
               [weekday |-> IF df[i].order_datetime = NaT THEN NaN
                            ELSE WeekdayOf(df[i].order_datetime),
                anomaly_weekend |-> on /\ AnomalyWeekend(df[i])])]

\* detect() returns: args.offhours is falsy (None or "") or parses
DetectOk ==
    /\ pc = "aggregated"
    /\ args.offhours = <<>> \/ WindowParses(args.offhours)
    /\ order_view' = WeekendFlags(OffhoursFlags(FirstFlags(order_view), args.offhours),
                                  args.weekend)
    /\ pc' = "detected"
    /\ UNCHANGED <<args, xl_orders, xl_payments, xl_refunds, orders, payments, refunds,
                   outdir, error>>

\* detect() raises ValueError at lines 116-118; df is self.order_view itself, so the
\* columns assigned before stay
DetectRaise ==
    /\ pc = "aggregated"
    /\ args.offhours # <<>>
    /\ ~WindowParses(args.offhours)
    /\ order_view' = FirstFlags(order_view)
    /\ error' = "ValueError"
    /\ pc' = "failed"
    /\ UNCHANGED <<args, xl_orders, xl_payments, xl_refunds, orders, payments, refunds,
                   outdir>>

----------------------------------------------------------------------------
(* ReportGenerator *)

\* the columns whose name starts with "anomaly_", in the order detect() adds them
AnomalyCols ==
    <<"anomaly_payment_mismatch", "anomaly_over_refund", "anomaly_late_refund",
      "anomaly_multigateway", "anomaly_outlier_amount", "anomaly_invalid_amount",
      "anomaly_offhours", "anomaly_weekend">>

Count(df, col) == Len(SelectSeq(df, LAMBDA r : r[col]))

\* faulty variant of BucketDates: groupby(..., dropna=False) keeps a bucket for NaT
BucketDatesKeepNaT(df) == {DateOf(r.order_datetime) : r \in Range(df)}

\* the keys of groupby(order_datetime.dt.date): groupby drops the NaT key
BucketDates(df) ==
    {DateOf(r.order_datetime) : r \in {x \in Range(df) : x.order_datetime # NaT}}

BucketOf(df, d) ==
    SelectSeq(df, LAMBDA r : r.order_datetime # NaT /\ DateOf(r.order_datetime) = d)

NetRevenue(paid, refunded) == paid - refunded

\* daily_summary()
DailySummary(df) ==
    LET dates == SortedInts(BucketDates(df))
    IN  [k \in 1..Len(dates) |->
            LET g == BucketOf(df, dates[k])
                paid == SumBy(g, "success_sum", 1)
                refunded == SumBy(g, "refund_sum", 1)
            IN  [date |-> dates[k],
                 orders_placed |-> Len(SelectSeq(g, LAMBDA r : r.order_id # NaN)),
                 payments_success_sum |-> paid,
                 refunds_sum |-> refunded,
                 net_revenue |-> NetRevenue(paid, refunded)]]

\* daily_anomaly_summary()
DailyAnomalySummary(df) ==
    LET dates == SortedInts(BucketDates(df))
    IN  [k \in 1..Len(dates) |->
            LET g == BucketOf(df, dates[k])
            IN  Extend([date |-> dates[k]],
                       [c \in Range(AnomalyCols) |-> Count(g, c)])]

\* daily.merge(daily_anomalies, on="date", how="left")
DailyFull(df) ==
    LET daily == DailySummary(df)
        flags == DailyAnomalySummary(df)
    IN  [k \in 1..Len(daily) |->
            LET m == SelectSeq(flags, LAMBDA r : r.date = daily[k].date)
            IN  IF m = <<>> THEN daily[k] ELSE Extend(daily[k], m[1])]

\* order_view[order_view.filter(like="anomaly_").any(axis=1)]
Anomalies(df) == SelectSeq(df, LAMBDA r : \E i \in 1..Len(AnomalyCols) : r[AnomalyCols[i]])

\* anomalies.filter(like="anomaly_").sum().to_dict()
AnomalyCounts(df) == [c \in Range(AnomalyCols) |-> Count(Anomalies(df), c)]

AppendIf(s, flag, reason) == IF flag THEN Append(s, reason) ELSE s

\* faulty variant of AnomalyReasons: the over-refund test comes before the mismatch test
AnomalyReasonsSwapped(r) ==
    LET r1 == AppendIf(<<>>, r.anomaly_over_refund, "Over-refund")
        r2 == AppendIf(r1, r.anomaly_payment_mismatch, "Payment mismatch")
        r3 == AppendIf(r2, r.anomaly_late_refund, "Late refund")
        r4 == AppendIf(r3, r.anomaly_offhours, "Off-hours order")
        r5 == AppendIf(r4, r.anomaly_weekend, "Weekend order")
        r6 == AppendIf(r5, r.anomaly_multigateway, "Multi-gateway success")
        r7 == AppendIf(r6, r.anomaly_outlier_amount, "Outlier amount")
    IN  AppendIf(r7, r.anomaly_invalid_amount, "Invalid/negative amount")

\* the anomaly_reasons list of one row, built by the eight ifs of lines 186-234
AnomalyReasons(r) ==
    LET r1 == AppendIf(<<>>, r.anomaly_payment_mismatch, "Payment mismatch")
        r2 == AppendIf(r1, r.anomaly_over_refund, "Over-refund")
        r3 == AppendIf(r2, r.anomaly_late_refund, "Late refund")
        r4 == AppendIf(r3, r.anomaly_offhours, "Off-hours order")
        r5 == AppendIf(r4, r.anomaly_weekend, "Weekend order")
        r6 == AppendIf(r5, r.anomaly_multigateway, "Multi-gateway success")
        r7 == AppendIf(r6, r.anomaly_outlier_amount, "Outlier amount")
    IN  AppendIf(r7, r.anomaly_invalid_amount, "Invalid/negative amount")

\* generate_detailed_anomalies()
GenerateDetailedAnomalies(df) ==
    LET a == Anomalies(df)
    IN  [i \in 1..Len(a) |-> [order_id |-> a[i].order_id, anomalies |-> AnomalyReasons(a[i])]]

\* faulty variant of Report: payments and refunds are counted over the orders of the view
ReportJoinedCounts(df, p, r, a) ==
    [total_orders |-> Len(df),
     total_payments |-> Len(SelectSeq(p, LAMBDA x : \E i \in 1..Len(df) : df[i].order_id = x.order_id)),
     total_refunds |-> Len(SelectSeq(r, LAMBDA x : \E i \in 1..Len(df) : df[i].order_id = x.order_id)),
     filtered_orders |-> Len(df),
     anomaly_summary |-> AnomalyCounts(df),
     filters |-> a,
     overall_metrics |-> DailyFull(df),
     anomaly_counts |-> AnomalyCounts(df),
     detailed_anomalies |-> GenerateDetailedAnomalies(df)]

\* the report dict of save_outputs (run_timestamp left out: it is the wall clock)
Report(df, p, r, a) ==
    [total_orders |-> Len(df),
     total_payments |-> Len(p),
     total_refunds |-> Len(r),
     filtered_orders |-> Len(df),
     anomaly_summary |-> AnomalyCounts(df),
     filters |-> a,
     overall_metrics |-> DailyFull(df),
     anomaly_counts |-> AnomalyCounts(df),
     detailed_anomalies |-> GenerateDetailedAnomalies(df)]

\* save_outputs, lines 246-249
WriteSummary ==
    /\ pc = "detected"
    /\ outdir' = outdir @@ ("summary.csv" :> DailyFull(order_view))
    /\ pc' = "summary_written"
    /\ UNCHANGED <<args, xl_orders, xl_payments, xl_refunds, orders, payments, refunds,
                   order_view, error>>

\* save_outputs, lines 252-253
WriteAnomalies ==
    /\ pc = "summary_written"
    /\ outdir' = outdir @@ ("anomalies.csv" :> Anomalies(order_view))
    /\ pc' = "anomalies_written"
    /\ UNCHANGED <<args, xl_orders, xl_payments, xl_refunds, orders, payments, refunds,
                   order_view, error>>

\* save_outputs, lines 256-278
WriteReport ==
    /\ pc = "anomalies_written"
    /\ outdir' = outdir @@ ("report.json" :> Report(order_view, payments, refunds, args))
    /\ pc' = "done"
    /\ UNCHANGED <<args, xl_orders, xl_payments, xl_refunds, orders, payments, refunds,
                   order_view, error>>

\* to_csv or open(..., "w") raises OSError (directory removed or read-only, disk
\* full): save_outputs has no handler, the run ends and what was written stays
WriteFail ==
    /\ pc \in {"detected", "summary_written", "anomalies_written"}
    /\ error' = "OSError"
    /\ pc' = "failed"
    /\ UNCHANGED <<args, xl_orders, xl_payments, xl_refunds, orders, payments, refunds,
                   order_view, outdir>>

Next ==
    \/ LoadAndClean
    \/ DateFilter
    \/ Aggregate
    \/ DetectOk
    \/ DetectRaise
    \/ WriteSummary
    \/ WriteAnomalies
    \/ WriteReport
    \/ WriteFail

\* ReportGenerator(order_view, ...).save_outputs() alone
NextReport ==
    \/ WriteSummary
    \/ WriteAnomalies
    \/ WriteReport
    \/ WriteFail

----------------------------------------------------------------------------
(* Inputs *)

MaxOrders == 2

MaxPayments == 2

MaxRefunds == 2

MaxViewRows == 1

At(day, hour, minute) == day * MinutesPerDay + hour * MinutesPerHour + minute

Order(id, t, amount) == [order_id |-> id, order_datetime |-> t, order_amount |-> amount]

Payment(id, oid, t, amount, status, gw) ==
    [payment_id |-> id, order_id |-> oid, payment_datetime |-> t, paid_amount |-> amount,
     payment_status |-> status, gateway |-> gw]

Refund(id, oid, t, amount) ==
    [refund_id |-> id, order_id |-> oid, refund_datetime |-> t, refund_amount |-> amount]

Args(from, to, window, wk) ==
    [date_from |-> from, date_to |-> to, offhours |-> window, weekend |-> wk]

TwoDigits(n) == <<Digits[(n \div 10) + 1], Digits[(n % 10) + 1]>>

\* the text "HH:MM-HH:MM"
FormatWindow(h1, m1, h2, m2) ==
    TwoDigits(h1) \o <<":">> \o TwoDigits(m1) \o <<"-">> \o TwoDigits(h2) \o <<":">> \o TwoDigits(m2)

\* "21:00": no second time
WindowNoEnd == TwoDigits(21) \o <<":">> \o TwoDigits(0)

\* "ab-09:00": no numbers in the first time
WindowNotNumeric == <<"a", "b", "-">> \o TwoDigits(9) \o <<":">> \o TwoDigits(0)

\* "25:00-09:00": an hour that does not exist
WindowBadHour == FormatWindow(25, 0, 9, 0)

\* the state after argparse and the constructor of ReconciliationETL
InitWith(O, P, R, A) ==
    /\ xl_orders \in O
    /\ xl_payments \in P
    /\ xl_refunds \in R
    /\ args \in A
    /\ orders = <<>>
    /\ payments = <<>>
    /\ refunds = <<>>
    /\ order_view = <<>>
    /\ outdir = <<>>
    /\ error = "none"
    /\ pc = "start"

\* whole runs over small files and every kind of configuration
Init ==
    InitWith(
        SeqsUpTo({Order(1, t, 1000) : t \in {NaT, At(1, 10, 0)}}, MaxOrders),
        SeqsUpTo({Payment(1, 1, At(1, 10, 5), 1000, "SUCCESS", "A"),
                  Payment(2, 1, At(1, 10, 1), 1000, "FAILED", "B")}, MaxPayments),
        SeqsUpTo({Refund(1, 1, At(2, 9, 0), 300)}, MaxRefunds),
        {Args(f, NoDate, w, wk) :
            f \in {NoDate, 2},
            w \in {<<>>, FormatWindow(21, 0, 9, 0), WindowNoEnd, WindowBadHour},
            wk \in BOOLEAN})

Spec == Init /\ [][Next]_vars

\* order files with repeated rows, repeated and missing ids, unknown and equal dates
InitOrders ==
    InitWith(
        SeqsUpTo({Order(id, t, a) :
                    id \in {1, 2, NaN}, t \in {NaT, At(1, 10, 0), At(2, 0, 0)},
                    a \in {1000, 2000}}, MaxOrders),
        {<<>>, <<Payment(1, 1, At(1, 10, 5), 600, "SUCCESS", "A"),
                 Payment(2, 1, At(1, 10, 6), 400, "SUCCESS", "B"),
                 Payment(3, 2, At(2, 0, 1), 2000, "FAILED", "A")>>},
        {<<Refund(1, 1, At(3, 9, 0), 300), Refund(2, 1, At(4, 9, 0), 200)>>},
        {Args(NoDate, NoDate, w, FALSE) : w \in {<<>>, WindowNoEnd}})

SpecOrders == InitOrders /\ [][Next]_vars

\* payment and refund files of every shape, against an order with and one without them
InitPay ==
    InitWith(
        {<<Order(1, At(1, 10, 0), 1000), Order(3, At(1, 11, 0), 500)>>},
        SeqsUpTo({Payment(id, oid, At(1, 10, id), 500 + 200 * id, st, IF id = 1 THEN "A" ELSE "B") :
                    id \in {1, 2}, oid \in {1, 2}, st \in {"SUCCESS", "FAILED"}}, MaxPayments),
        SeqsUpTo({Refund(id, 1, At(2, 9, id), 100 * id) : id \in {1, 2}}, MaxRefunds),
        {Args(NoDate, NoDate, w, FALSE) : w \in {<<>>, WindowNotNumeric}})

SpecPay == InitPay /\ [][Next]_vars

\* orders around midnight of the filter dates, payments and refunds outside them
InitFilter ==
    InitWith(
        SeqsUpTo({Order(1, t, 1000) :
                    t \in {NaT, At(0, 23, 59), At(1, 0, 0), At(1, 10, 0), At(2, 0, 0),
                           At(2, 23, 59), At(3, 0, 0)}}, MaxOrders),
        {<<Payment(1, 1, At(9, 10, 0), 1000, "SUCCESS", "A")>>},
        {<<Refund(1, 1, At(9, 12, 0), 1000)>>},
        {Args(f, t, w, FALSE) :
            f \in {NoDate, 1, 2}, t \in {NoDate, 1, 2}, w \in {<<>>, WindowNoEnd}})

SpecFilter == InitFilter /\ [][Next]_vars

WindowHours == {0, 9, 21}

WindowMinutes == {0, 30}

\* one order at the edges of the windows, every window over WindowHours x WindowMinutes
InitOffhours ==
    InitWith(
        {<<Order(1, t, 1000)>> :
            t \in {NaT} \cup {At(1, h, m) : h \in WindowHours \cup {10, 23}, m \in {0, 29, 30, 59}}},
        {<<>>},
        {<<>>},
        {Args(NoDate, NoDate, w, FALSE) :
            w \in {<<>>, WindowNoEnd, WindowNotNumeric} \cup
                  {FormatWindow(h1, m1, h2, m2) :
                      h1 \in WindowHours, m1 \in WindowMinutes,
                      h2 \in WindowHours, m2 \in WindowMinutes}})

SpecOffhours == InitOffhours /\ [][Next]_vars

\* one order, refunds from before it to nine days after it
InitLate ==
    InitWith(
        {<<Order(1, t, 1000)>> : t \in {NaT, At(1, 0, 0), At(1, 10, 0)}},
        {<<>>},
        SeqsUpTo({Refund(1, 1, t, 100) :
                    t \in {NaT, At(0, 23, 59), At(8, 0, 0), At(8, 9, 59), At(8, 23, 59),
                           At(9, 0, 0), At(9, 10, 0), At(10, 0, 0)}}, MaxRefunds),
        {Args(NoDate, NoDate, w, FALSE) : w \in {<<>>, WindowNoEnd}})

SpecLate == InitLate /\ [][Next]_vars

\* a row of the order view after detect(), with the given values of the eight flags;
\* save_outputs() branches on the flag cells only, the other cells are carried along
ViewRow(f) ==
    Extend([order_id |-> 1, order_datetime |-> At(6, 23, 30), order_amount |-> 1000,
            success_sum |-> 1000, first_success_time |-> At(6, 23, 31),
            gateways_used |-> {"A"}, refund_sum |-> 0, first_refund_time |-> NaT,
            hour |-> 23, minute |-> 30, weekday |-> 6], f)

\* the state in which save_outputs() is called, for every combination of the flags
InitReport ==
    /\ order_view \in SeqsUpTo({ViewRow(f) : f \in [Range(AnomalyCols) -> BOOLEAN]}, MaxViewRows)
    /\ args = Args(NoDate, NoDate, FormatWindow(21, 0, 9, 0), TRUE)
    /\ xl_orders = <<>>
    /\ xl_payments = <<>>
    /\ xl_refunds = <<>>
    /\ orders = <<>>
    /\ payments = <<>>
    /\ refunds = <<>>
    /\ outdir = <<>>
    /\ error = "none"
    /\ pc = "detected"

SpecReport == InitReport /\ [][NextReport]_vars

----------------------------------------------------------------------------
(* Properties *)

Aggregated == pc \notin {"start", "loaded", "filtered"}

\* detect() returned: every row carries the eight flags
Detected == pc \in {"detected", "summary_written", "anomalies_written", "done"}
            \/ (pc = "failed" /\ error = "OSError")

Rows == 1..Len(order_view)

Artifacts == {"summary.csv", "anomalies.csv", "report.json"}

RECURSIVE SumCells(_, _, _)
\* the sum of df[i][col] over the row numbers i in I
SumCells(df, col, I) ==
    IF I = {} THEN 0
    ELSE LET i == CHOOSE x \in I : TRUE
         IN  df[i][col] + SumCells(df, col, I \ {i})

\* C1: after aggregate() the order view has exactly one row per distinct order_id
\* of the (cleaned, date-filtered) orders: as many rows as distinct ids, each id
\* on exactly one row.
C1_OneRowPerOrderId ==
    Aggregated =>
        LET ids == {o.order_id : o \in Range(orders)}
        IN  /\ Len(order_view) = Cardinality(ids)
            /\ \A id \in ids : Cardinality({i \in Rows : order_view[i].order_id = id}) = 1

SuccessOf(oid) ==
    {i \in 1..Len(payments) :
        payments[i].order_id = oid /\ payments[i].payment_status = "SUCCESS"}

RefundsOf(oid) == {i \in 1..Len(refunds) : refunds[i].order_id = oid}

\* C2: on every row of the order view success_sum is the sum of paid_amount over
\* the SUCCESS payments of that order_id and refund_sum the sum of refund_amount
\* over the refunds of that order_id, 0 when there is none.
C2_SumsMatch ==
    Aggregated =>
        \A i \in Rows :
            LET oid == order_view[i].order_id
            IN  /\ order_view[i].success_sum = SumCells(payments, "paid_amount", SuccessOf(oid))
                /\ order_view[i].refund_sum = SumCells(refunds, "refund_amount", RefundsOf(oid))
                /\ SuccessOf(oid) = {} => order_view[i].success_sum = 0
                /\ RefundsOf(oid) = {} => order_view[i].refund_sum = 0

\* C2 witness: an aggregated row whose order has a SUCCESS payment, a payment that
\* is not SUCCESS and a refund.
C2_Witness ==
    /\ pc = "aggregated"
    /\ \E i \in Rows :
           /\ SuccessOf(order_view[i].order_id) # {}
           /\ \E k \in 1..Len(payments) :
                  /\ payments[k].order_id = order_view[i].order_id
                  /\ payments[k].payment_status # "SUCCESS"
           /\ Cardinality(RefundsOf(order_view[i].order_id)) = 2
           /\ order_view[i].success_sum > 0

\* "HH:MM-HH:MM" with an hour below 24 and a minute below 60
WellFormedWindow(w) ==
    /\ Len(w) = 11
    /\ w[3] = ":" /\ w[6] = "-" /\ w[9] = ":"
    /\ \A i \in {1, 2, 4, 5, 7, 8, 10, 11} : IsDigit(w[i])
    /\ IntOf(SubSeq(w, 1, 2)) < HoursPerDay /\ IntOf(SubSeq(w, 7, 8)) < HoursPerDay
    /\ IntOf(SubSeq(w, 4, 5)) < MinutesPerHour /\ IntOf(SubSeq(w, 10, 11)) < MinutesPerHour

Malformed(w) == w # <<>> /\ ~WellFormedWindow(w)

\* C3: with a malformed off-hours window the run fails before any row is
\* processed: no row is ever aggregated into the order view or given a flag, no
\* artifact is written and the run does not complete.
C3_FailFast ==
    Malformed(args.offhours) =>
        /\ order_view = <<>>
        /\ DOMAIN outdir = {}
        /\ pc # "done"

\* C4: when save_outputs has ended, normally or by a failure, either all three
\* artifacts are written or none is.
C4_AllOrNothing ==
    pc \in {"done", "failed"} => (DOMAIN outdir = {} \/ DOMAIN outdir = Artifacts)

\* an order placed on a date d with date_from <= d <= date_to (a bound that is not
\* given does not restrict; without any bound every order survives)
Survives(o) ==
    \/ (args.date_from = NoDate /\ args.date_to = NoDate)
    \/ /\ o.order_datetime # NaT
       /\ args.date_from # NoDate => args.date_from <= DateOf(o.order_datetime)
       /\ args.date_to # NoDate => DateOf(o.order_datetime) <= args.date_to

\* C5: the date filter keeps exactly the orders placed on a date d with
\* date_from <= d <= date_to, at any time of day, and never touches payments or
\* refunds.
C5_InclusiveDates ==
    pc \notin {"start", "loaded"} =>
        /\ orders = SelectSeq(CleanOrders(xl_orders), Survives)
        /\ payments = CleanPayments(xl_payments)
        /\ refunds = CleanRefunds(xl_refunds)

Known == {i \in Rows : order_view[i].order_datetime # NaT}

\* C6: the buckets of daily_summary() partition the rows with a known
\* order_datetime: each such row is in exactly one bucket, that of its date, no
\* bucket is empty or counts another row, the orders_placed add up to the number
\* of such rows, and net_revenue = payments_success_sum - refunds_sum.
C6_BucketsPartition ==
    "summary.csv" \in DOMAIN outdir =>
        LET s == outdir["summary.csv"]
            B == 1..Len(s)
        IN  /\ \A i \in Known :
                   Cardinality({k \in B : s[k].date = DateOf(order_view[i].order_datetime)}) = 1
            /\ \A k \in B :
                   /\ s[k].orders_placed >= 1
                   /\ s[k].orders_placed =
                          Cardinality({i \in Known : DateOf(order_view[i].order_datetime) = s[k].date})
                   /\ s[k].net_revenue = s[k].payments_success_sum - s[k].refunds_sum
                   /\ s[k].payments_success_sum =
                          SumCells(order_view, "success_sum",
                                   {i \in Known : DateOf(order_view[i].order_datetime) = s[k].date})
            /\ SumCells(s, "orders_placed", B) = Cardinality(Known)

\* C6 witness: a summary written for a view with a row of unknown order_datetime
\* and a bucket with payments and refunds.
C6_Witness ==
    /\ "summary.csv" \in DOMAIN outdir
    /\ Known # Rows
    /\ \E k \in 1..Len(outdir["summary.csv"]) :
           /\ outdir["summary.csv"][k].payments_success_sum > 0
           /\ outdir["summary.csv"][k].refunds_sum > 0

\* the rules in their canonical order, with the label of each
Canonical ==
    <<"anomaly_payment_mismatch", "anomaly_over_refund", "anomaly_late_refund",
      "anomaly_offhours", "anomaly_weekend", "anomaly_multigateway",
      "anomaly_outlier_amount", "anomaly_invalid_amount">>

Label ==
    <<"Payment mismatch", "Over-refund", "Late refund", "Off-hours order", "Weekend order",
      "Multi-gateway success", "Outlier amount", "Invalid/negative amount">>

Rank(reason) == CHOOSE k \in 1..Len(Label) : Label[k] = reason

Flagged == {i \in Rows : \E k \in 1..Len(Canonical) : order_view[i][Canonical[k]]}

\* C7: the report has one detailed record per row with a true flag, in row order,
\* none for another row, and the reasons of a record are those of the row's true
\* flags, one each, in canonical order.
C7_ReasonsCanonical ==
    "report.json" \in DOMAIN outdir =>
        LET d == outdir["report.json"].detailed_anomalies
            flagged == SortedInts(Flagged)
        IN  /\ Len(d) = Cardinality(Flagged)
            /\ \A j \in 1..Len(d) :
                   LET row == order_view[flagged[j]]
                       a == d[j].anomalies
                   IN  /\ d[j].order_id = row.order_id
                       /\ \A n \in 1..Len(a) : \E k \in 1..Len(Label) : Label[k] = a[n]
                       /\ \A n \in 1..(Len(a) - 1) : Rank(a[n]) < Rank(a[n + 1])
                       /\ {Rank(a[n]) : n \in 1..Len(a)} =
                              {k \in 1..Len(Canonical) : row[Canonical[k]]}

\* C7 witness: a report for a row that triggers all eight rules.
C7_Witness ==
    /\ "report.json" \in DOMAIN outdir
    /\ \E i \in Rows : \A k \in 1..Len(Canonical) : order_view[i][Canonical[k]]

\* m in the half-open window [start, end), which wraps only when start > end
InWindow(m, start, end) ==
    IF start > end THEN m >= start \/ m < end
    ELSE start <= m /\ m < end

\* C8: anomaly_offhours is true exactly for a row with a known order_datetime whose
\* minute of day lies in [start, end), wrapping over midnight only when
\* start > end; without a window it is false on every row.
C8_HalfOpenWindow ==
    Detected =>
        \A i \in Rows :
            LET t == order_view[i].order_datetime
                w == args.offhours
            IN  order_view[i].anomaly_offhours =
                    (/\ w # <<>>
                     /\ t # NaT
                     /\ InWindow(t % MinutesPerDay, WindowStart(w), WindowEnd(w)))

\* C9: anomaly_late_refund is true exactly when first_refund_time and
\* order_datetime are known and the refund is 8 whole days or more after the
\* order (more than 7 whole days).
C9_LateRefund ==
    Detected =>
        \A i \in Rows :
            LET t == order_view[i].order_datetime
                f == order_view[i].first_refund_time
            IN  order_view[i].anomaly_late_refund =
                    (/\ f # NaT
                     /\ t # NaT
                     /\ f - t >= (LateRefundDays + 1) * MinutesPerDay)

\* C9 witness: after detect(), a row refunded 7 days and some hours after the order
\* (not flagged) next to the case of a refund at least 8 days after it.
C9_Witness ==
    /\ pc = "detected"
    /\ \E i \in Rows :
           LET t == order_view[i].order_datetime
               f == order_view[i].first_refund_time
           IN  /\ f # NaT /\ t # NaT
               /\ f - t > LateRefundDays * MinutesPerDay
               /\ f - t < (LateRefundDays + 1) * MinutesPerDay
               /\ ~order_view[i].anomaly_late_refund
               /\ Len(refunds) = 2

ZeroCounts(c) == \A k \in 1..Len(Canonical) : c[Canonical[k]] = 0

\* C10 (as claimed): with no order left, a finished run has an empty daily summary,
\* an empty anomalies table and a report whose order, payment and refund counts
\* and per-flag counts are all zero.
C10_AllTotalsZero ==
    (pc = "done" /\ orders = <<>>) =>
        /\ outdir["summary.csv"] = <<>>
        /\ outdir["anomalies.csv"] = <<>>
        /\ outdir["report.json"].total_orders = 0
        /\ outdir["report.json"].total_payments = 0
        /\ outdir["report.json"].total_refunds = 0
        /\ ZeroCounts(outdir["report.json"].anomaly_counts)

\* C10 (amended): with no order left and an off-hours window that is absent or
\* parses, no step of the pipeline raises on the data, and a finished run has an
\* empty daily summary, an empty anomalies table and a report with zero orders and
\* zero per-flag counts, whose payment and refund counts are those of the loaded
\* payments and refunds.
C10_EmptyBatch ==
    (Aggregated /\ orders = <<>> /\ (args.offhours = <<>> \/ WindowParses(args.offhours))) =>
        /\ error # "ValueError"
        /\ order_view = <<>>
        /\ "summary.csv" \in DOMAIN outdir => outdir["summary.csv"] = <<>>
        /\ "anomalies.csv" \in DOMAIN outdir => outdir["anomalies.csv"] = <<>>
        /\ pc = "done" =>
               LET r == outdir["report.json"]
               IN  /\ DOMAIN outdir = Artifacts
                   /\ r.total_orders = 0
                   /\ r.filtered_orders = 0
                   /\ r.total_payments = Len(CleanPayments(xl_payments))
                   /\ r.total_refunds = Len(CleanRefunds(xl_refunds))
                   /\ ZeroCounts(r.anomaly_counts)
                   /\ ZeroCounts(r.anomaly_summary)
                   /\ r.overall_metrics = <<>>
                   /\ r.detailed_anomalies = <<>>

\* C10 witness: a finished run whose orders were all removed by the date filter,
\* with payments and refunds loaded and an off-hours window and weekend detection on.
C10_Witness ==
    /\ pc = "done"
    /\ orders = <<>>
    /\ xl_orders # <<>>
    /\ payments # <<>>
    /\ refunds # <<>>
    /\ args.offhours # <<>>
    /\ args.weekend

====
